---- MODULE Spec2Model ----
(***************************************************************************)
(* Model of the Sanskrit OCR server (src/src/main.rs).                     *)
(*                                                                         *)
(*   POST /upload   collects the valid parts, spawns one background task   *)
(*                  per request and returns the session id at once;        *)
(*   the task       runs process_with_tesseract on every collected file,   *)
(*                  publishing ProgressStatus snapshots in the shared      *)
(*                  tracker, and finally publishes the terminal snapshot;  *)
(*   GET /status    clones the tracker entry of a session id;              *)
(*   POST /split    cuts one PDF into page ranges with pdftk.              *)
(*                                                                         *)
(* Option<T> is a sequence of length 0 (None) or 1 (Some).  Strings the    *)
(* code inspects are sequences of tokens (text) or records (filenames).    *)
(* Fields and variables marked "history" record what happened and are read *)
(* by no action.                                                           *)
(***************************************************************************)
EXTENDS Integers, Sequences, FiniteSets, TLC

\* ---------------------------------------------------------------- bounds
MaxSessions == 2      \* upload requests served in one run
MaxParts == 2         \* multipart parts received over all upload requests
MaxPages == 2         \* page images pdftoppm produces over all conversions
MaxTotalPages == 5    \* NumberOfPages of the PDF sent to /split
MaxSizeSteps == 8     \* the PDF sent to /split has 0..MaxSizeSteps * SizeStep bytes
SizeStep == 256500
MaxLostChunks == 1    \* chunks that fail to materialize in the 1203-page split

\* ------------------------------------------------------ program constants
TargetChunkKB == 500  \* l.583: 500.0 / estimated_kb_per_page
BytesPerKB == 1024    \* l.581: metadata.len() / 1024

Sessions == 1..MaxSessions

None == <<>>
Some(x) == <<x>>

\* ------------------------------------------------------------- filenames
\* A filename is its stem and the text after its last '.'.
Exts == {"pdf", "PDF", "png", "jpg", "jpeg", "txt"}

to_lowercase(e) == IF e = "PDF" THEN "pdf" ELSE e

Filenames ==
    { [stem |-> "a", ext |-> "PDF"], [stem |-> "b", ext |-> "png"],
      [stem |-> "c", ext |-> "txt"] }

\* upload: filename.to_lowercase().ends_with(".pdf" | ".png" | ".jpg" | ".jpeg")
is_valid(filename) == to_lowercase(filename.ext) \in {"pdf", "png", "jpg", "jpeg"}

\* process_with_tesseract: file_path.extension().to_lowercase() == "pdf"
is_pdf(file) == to_lowercase(file.temp_path.ext) = "pdf"

\* ------------------------------------------------------------------ text
Ws == [kind |-> "ws", page |-> 0]                  \* a run of whitespace
PageMarker(p) == [kind |-> "marker", page |-> p]   \* "--- Page p ---"
PageText(p) == [kind |-> "text", page |-> p]       \* non-blank recognised text

RECURSIVE trim_start(_)
trim_start(t) ==
    IF t = <<>> THEN <<>>
    ELSE IF Head(t) = Ws THEN trim_start(Tail(t)) ELSE t

RECURSIVE trim_end(_)
trim_end(t) ==
    IF t = <<>> THEN <<>>
    ELSE IF t[Len(t)] = Ws THEN trim_end(SubSeq(t, 1, Len(t) - 1)) ELSE t

\* str::trim
trim(t) == trim_end(trim_start(t))

\* ------------------------------------------------------------- OcrResult
OcrFailure(filename, err) ==
    [ filename |-> filename, text |-> <<>>, success |-> FALSE,
      error |-> Some(err), pages_processed |-> None, total_pages |-> None,
      estimated_time_seconds |-> None ]

OcrSuccess(filename, text, n) ==
    [ filename |-> filename, text |-> text, success |-> TRUE,
      error |-> None, pages_processed |-> Some(n), total_pages |-> Some(n),
      estimated_time_seconds |-> Some("elapsed") ]

\* -------------------------------------------------------- ProgressStatus
NoName == [stem |-> "", ext |-> ""]

\* message: the format string and its arguments
Message(fmt, name, a, b) == [fmt |-> fmt, name |-> name, a |-> a, b |-> b]

StConverting(filename) ==
    [ stage |-> "Converting PDF", current |-> 0, total |-> 0,
      message |-> Message("Converting PDF '{}'...", filename, 0, 0),
      complete |-> FALSE, results |-> <<>> ]

StConverted(n) ==
    [ stage |-> "PDF Converted", current |-> n, total |-> n,
      message |-> Message("Converted {} pages, starting OCR...", NoName, n, 0),
      complete |-> FALSE, results |-> <<>> ]

StOcr(i, n) ==
    [ stage |-> "OCR Processing", current |-> i, total |-> n,
      message |-> Message("Processing page {}/{}", NoName, i, n),
      complete |-> FALSE, results |-> <<>> ]

StComplete(res) ==
    [ stage |-> "Complete", current |-> Len(res), total |-> Len(res),
      message |-> Message("Processing complete", NoName, 0, 0),
      complete |-> TRUE, results |-> res ]

\* ----------------------------------------------------------------- state
VARIABLES
    tracker,        \* ProgressTracker: session id -> Option<ProgressStatus>
    task,           \* the spawned task of each session: locals and position
    disk,           \* temporary files that exist
    issued,         \* number of session ids handed out by upload
    parts_seen,     \* multipart parts received so far
    status_reply,   \* body of the latest GET /status reply, with its id and
                    \* (history) the latest insert for that id at that time
    pages_made,     \* page images pdftoppm has produced so far
    last_insert,    \* history: the snapshot of the latest insert per id
    split           \* the POST /split request: locals, position and reply

vars == <<tracker, task, disk, issued, parts_seen, pages_made, status_reply,
          last_insert, split>>

ocr_vars == <<tracker, task, disk, issued, parts_seen, pages_made, status_reply,
              last_insert>>

NoTask ==
    [ pc |-> "unspawned", payload |-> <<>>, files_to_process |-> <<>>,
      file_i |-> 1,
      results |-> <<>>, pages |-> <<>>, idx |-> 0, all_text |-> <<>>,
      ocr_result |-> None,
      ok_pages |-> {},       \* history: pages recognised with non-blank text
      failed_pages |-> {},   \* history: pages whose recognition failed
      tool_calls |-> {},     \* history: the tool invocations of the task
      running |-> 0,         \* history: tools started and not yet returned
      conv_failed |-> {},    \* history: the files whose conversion failed
      image_outcome |-> None ]  \* history: how tesseract ended on the image

NoSplit ==
    [ pc |-> "idle", total_pages |-> 0, file_size_kb |-> 0,
      pages_per_chunk |-> 0, current_page |-> 1, chunk_num |-> 1,
      end_page |-> 0, chunks |-> <<>>, response |-> None,
      invoked |-> <<>>, failed |-> <<>> ]   \* history: ranges tried, ranges lost

Init ==
    /\ tracker = [s \in Sessions |-> None]
    /\ task = [s \in Sessions |-> NoTask]
    /\ disk = {}
    /\ issued = 0
    /\ parts_seen = 0
    /\ pages_made = 0
    /\ status_reply = [session_id |-> 0, body |-> None, inserted |-> None]
    /\ last_insert = [s \in Sessions |-> None]
    /\ split = NoSplit

\* ----------------------------------------------------------------- files
\* Every temporary path carries a fresh Uuid: here the session, the position
\* of the file in the batch, the page number and the width of its padding.
UploadPath(sid, k, ext) ==
    [ kind |-> "upload", sid |-> sid, file |-> k, num |-> 0, width |-> 0,
      ext |-> ext ]

PagePath(sid, k, p, w) ==
    [ kind |-> "page", sid |-> sid, file |-> k, num |-> p, width |-> w,
      ext |-> "png" ]

TxtPath(sid, k, p) ==
    [ kind |-> "txt", sid |-> sid, file |-> k, num |-> p, width |-> 0,
      ext |-> "txt" ]

\* pdftoppm pads the page number of its output files to 1, 2 or 3 digits.
PadWidths == {1, 2, 3}

\* ---------------------------------------------------------------- upload
RECURSIVE collect_keeps_all(_, _, _)
\* Mutant: every part is saved and queued, whatever its extension.
collect_keeps_all(sid, parts, k) ==
    IF parts = <<>> THEN <<>>
    ELSE <<[ temp_path |-> UploadPath(sid, k, Head(parts).ext),
             filename |-> Head(parts) ]>>
         \o collect_keeps_all(sid, Tail(parts), k + 1)

RECURSIVE collect(_, _, _)
\* upload, the loop over the multipart payload: the parts with a valid
\* extension, each saved as ocr_<uuid>.<extension>, in payload order
collect(sid, parts, k) ==
    IF parts = <<>> THEN <<>>
    ELSE IF ~is_valid(Head(parts)) THEN collect(sid, Tail(parts), k)
    ELSE <<[ temp_path |-> UploadPath(sid, k, Head(parts).ext),
             filename |-> Head(parts) ]>>
         \o collect(sid, Tail(parts), k + 1)

Batches ==
    UNION { [1..n -> Filenames] : n \in 0..MaxParts }

\* Where the task goes at the head of `for (temp_path, filename) in
\* files_to_process`, and from there into process_with_tesseract.
enter_loop(files, i) ==
    IF i > Len(files) THEN "insert_complete"
    ELSE IF is_pdf(files[i]) THEN "insert_converting"
    ELSE "call_tesseract_image"

\* POST /upload without an I/O error: save the valid parts, spawn the task,
\* answer with the session id.
Upload(parts) ==
    /\ issued < MaxSessions
    /\ parts_seen + Len(parts) <= MaxParts
    /\ LET sid == issued + 1
           files == collect(sid, parts, 1)
       IN /\ issued' = sid
          /\ parts_seen' = parts_seen + Len(parts)
          /\ disk' = disk \cup { files[i].temp_path : i \in 1..Len(files) }
          /\ task' = [task EXCEPT ![sid] =
                 [ NoTask EXCEPT !.pc = enter_loop(files, 1),
                                 !.payload = parts,
                                 !.files_to_process = files ]]
    /\ UNCHANGED <<split, tracker, pages_made, status_reply, last_insert>>

\* ----------------------------------------------------------- the tracker
\* Mutant: the fields of an entry are overwritten one by one, and the stage
\* of the snapshot being replaced is still in place.
InsertTorn(tr, sid, status) ==
    IF tr[sid] = None THEN [tr EXCEPT ![sid] = Some(status)]
    ELSE [tr EXCEPT ![sid] = Some([status EXCEPT !.stage = tr[sid][1].stage])]

\* Mutant: every insert goes to one shared key.
InsertSharedKey(tr, sid, status) == [tr EXCEPT ![1] = Some(status)]

\* tracker.write().insert(session_id, status)
Insert(tr, sid, status) == [tr EXCEPT ![sid] = Some(status)]

Publish(sid, status) ==
    /\ tracker' = Insert(tracker, sid, status)
    /\ last_insert' = [last_insert EXCEPT ![sid] = Some(status)]

\* GET /status/{session_id}: tracker.read().get(&session_id).cloned()
GetStatus(sid) ==
    /\ status_reply' = [ session_id |-> sid, body |-> tracker[sid],
                         inserted |-> last_insert[sid] ]
    /\ UNCHANGED <<split, tracker, task, disk, issued, parts_seen, pages_made, last_insert>>

\* POST /upload failing on an I/O error (`item?`, File::create, write_all)
\* after `done` parts: the request fails, the parts already saved stay on
\* disk and no task is spawned.
UploadError(parts, done) ==
    /\ issued < MaxSessions
    /\ parts_seen + Len(parts) <= MaxParts
    /\ done < Len(parts)
    /\ LET files == collect(0, SubSeq(parts, 1, done), parts_seen + 1)
       IN disk' = disk \cup { files[i].temp_path : i \in 1..Len(files) }
    /\ parts_seen' = parts_seen + Len(parts)
    /\ UNCHANGED <<split, tracker, task, issued, pages_made, status_reply, last_insert>>

\* ----------------------------------------------- process_with_tesseract
CurFile(t) == t.files_to_process[t.file_i]

\* History of Command::new(tool) ... .output(): the tool, the file of the
\* batch it works for and the page it is given (0 when it is given the
\* uploaded file itself).
ToolCall(t, tool, page) ==
    [ tool |-> tool, file |-> t.file_i, name |-> CurFile(t).filename,
      page |-> page, done |-> Len(t.results) ]

Started(t, tool, page) ==
    [ t EXCEPT !.tool_calls = t.tool_calls \cup {ToolCall(t, tool, page)},
               !.running = t.running + 1 ]

\* Mutant: the snapshot carries the results gathered so far.
InsertConvertingWithResults(s) ==
    /\ task[s].pc = "insert_converting"
    /\ Publish(s, [StConverting(CurFile(task[s]).filename)
                      EXCEPT !.results = task[s].results])
    /\ task' = [task EXCEPT ![s].pc = "call_pdftoppm"]
    /\ UNCHANGED <<split, disk, issued, parts_seen, pages_made, status_reply>>

\* l.167: the "Converting PDF" snapshot
InsertConverting(s) ==
    /\ task[s].pc = "insert_converting"
    /\ Publish(s, StConverting(CurFile(task[s]).filename))
    /\ task' = [task EXCEPT ![s].pc = "call_pdftoppm"]
    /\ UNCHANGED <<split, disk, issued, parts_seen, pages_made, status_reply>>

\* l.185: Command::new("pdftoppm") ... .output() starts
InvokePdftoppm(s) ==
    /\ task[s].pc = "call_pdftoppm"
    /\ task' = [task EXCEPT ![s] =
           [Started(task[s], "pdftoppm", 0) EXCEPT !.pc = "wait_pdftoppm"]]
    /\ UNCHANGED <<split, tracker, disk, issued, parts_seen, pages_made, status_reply, last_insert>>

RECURSIVE discover(_, _, _, _)
\* l.195-209: probe <prefix>-NNN.png, then <prefix>-NN.png, from page 1 up
\* to the first page number that has neither
discover(files, sid, k, page_num) ==
    IF PagePath(sid, k, page_num, 3) \in files
    THEN <<PagePath(sid, k, page_num, 3)>> \o discover(files, sid, k, page_num + 1)
    ELSE IF PagePath(sid, k, page_num, 2) \in files
    THEN <<PagePath(sid, k, page_num, 2)>> \o discover(files, sid, k, page_num + 1)
    ELSE <<>>

\* Mutant: a failed conversion ends the task instead of yielding a result.
PdftoppmFailsAborts(s, how) ==
    /\ task[s].pc = "wait_pdftoppm"
    /\ how \in {"exec_err", "exit_fail"}
    /\ task' = [task EXCEPT ![s].pc = "done"]
    /\ UNCHANGED <<split, tracker, disk, issued, parts_seen, pages_made, status_reply, last_insert>>

\* Mutant: a failed conversion is recorded and ends the loop over the files.
PdftoppmFailsBreaksLoop(s, how) ==
    /\ task[s].pc = "wait_pdftoppm"
    /\ how \in {"exec_err", "exit_fail"}
    /\ LET t == task[s]
       IN task' = [task EXCEPT ![s].pc = "insert_complete",
                      ![s].running = t.running - 1,
                      ![s].conv_failed = t.conv_failed \cup {t.file_i},
                      ![s].results = Append(t.results,
                          OcrFailure(CurFile(t).filename, "PDF conversion error"))]
    /\ UNCHANGED <<split, tracker, disk, issued, parts_seen, pages_made, status_reply, last_insert>>

\* l.191-271: pdftoppm cannot be executed, or exits non-zero
PdftoppmFails(s, how) ==
    /\ task[s].pc = "wait_pdftoppm"
    /\ how \in {"exec_err", "exit_fail"}
    /\ LET t == task[s]
           err == IF how = "exec_err" THEN "Failed to execute pdftoppm"
                  ELSE "PDF conversion error"
       IN task' = [task EXCEPT ![s].pc = "push",
                      ![s].running = t.running - 1,
                      ![s].conv_failed = t.conv_failed \cup {t.file_i},
                      ![s].ocr_result = Some(OcrFailure(CurFile(t).filename, err))]
    /\ UNCHANGED <<split, tracker, disk, issued, parts_seen, pages_made, status_reply, last_insert>>

\* l.193-240: pdftoppm exits with success having written n page images whose
\* numbers are padded to w digits
PdftoppmSucceeds(s, n, w) ==
    /\ task[s].pc = "wait_pdftoppm"
    /\ n \in 0..(MaxPages - pages_made) /\ w \in PadWidths
    /\ n = 0 => w = 1
    /\ pages_made' = pages_made + n
    /\ LET t == task[s]
           written == { PagePath(s, t.file_i, p, w) : p \in 1..n }
           pages == discover(disk \cup written, s, t.file_i, 1)
       IN /\ disk' = disk \cup written
          /\ IF pages = <<>>
             THEN task' = [task EXCEPT ![s].pc = "push",
                      ![s].running = t.running - 1,
                      ![s].conv_failed = t.conv_failed \cup {t.file_i},
                      ![s].ocr_result = Some(OcrFailure(CurFile(t).filename,
                          "PDF conversion failed: no output files created"))]
             ELSE task' = [task EXCEPT ![s].pc = "insert_converted",
                                       ![s].running = t.running - 1,
                                       ![s].pages = pages]
    /\ UNCHANGED <<split, tracker, issued, parts_seen, status_reply, last_insert>>

\* l.228: the "PDF Converted" snapshot; then the page loop starts
InsertConverted(s) ==
    /\ task[s].pc = "insert_converted"
    /\ Publish(s, StConverted(Len(task[s].pages)))
    /\ task' = [task EXCEPT ![s].pc = "insert_ocr", ![s].idx = 0,
                            ![s].all_text = <<>>, ![s].ok_pages = {},
                            ![s].failed_pages = {}]
    /\ UNCHANGED <<split, disk, issued, parts_seen, pages_made, status_reply>>

\* Mutant: the snapshot is inserted with the number of the page before.
InsertOcrStale(s) ==
    /\ task[s].pc = "insert_ocr"
    /\ Publish(s, StOcr(task[s].idx, Len(task[s].pages)))
    /\ task' = [task EXCEPT ![s].pc = "call_tesseract"]
    /\ UNCHANGED <<split, disk, issued, parts_seen, pages_made, status_reply>>

\* l.294: the "OCR Processing" snapshot of page idx + 1
InsertOcr(s) ==
    /\ task[s].pc = "insert_ocr"
    /\ Publish(s, StOcr(task[s].idx + 1, Len(task[s].pages)))
    /\ task' = [task EXCEPT ![s].pc = "call_tesseract"]
    /\ UNCHANGED <<split, disk, issued, parts_seen, pages_made, status_reply>>

\* Mutant: tesseract is started on a page and the loop goes on to the next
\* page without waiting for it.
InvokeTesseractNoWait(s) ==
    /\ task[s].pc = "call_tesseract"
    /\ task' = [task EXCEPT ![s] =
           [Started(task[s], "tesseract", task[s].idx + 1)
               EXCEPT !.pc = IF task[s].idx + 1 < Len(task[s].pages)
                             THEN "insert_ocr" ELSE "wait_tesseract",
                      !.idx = IF task[s].idx + 1 < Len(task[s].pages)
                              THEN task[s].idx + 1 ELSE task[s].idx]]
    /\ UNCHANGED <<split, tracker, disk, issued, parts_seen, pages_made, status_reply, last_insert>>

\* l.337: Command::new("tesseract") on the page image starts
InvokeTesseract(s) ==
    /\ task[s].pc = "call_tesseract"
    /\ task' = [task EXCEPT ![s] =
           [Started(task[s], "tesseract", task[s].idx + 1)
               EXCEPT !.pc = "wait_tesseract"]]
    /\ UNCHANGED <<split, tracker, disk, issued, parts_seen, pages_made, status_reply, last_insert>>

\* What tesseract and the read of its output file can come to.
\*   exec_err       the program cannot be executed
\*   exit_fail      non-zero exit status
\*   ok_text        success, the output holds non-blank text
\*   ok_blank       success, the output holds only whitespace
\*   ok_unreadable  success, read_to_string of the output fails
TesseractOutcomes == {"exec_err", "exit_fail", "ok_text", "ok_blank", "ok_unreadable"}

\* Mutant: a page that fails empties the text gathered so far.
page_text_lost_on_failure(all_text, idx, outcome) ==
    IF outcome = "ok_text"
    THEN all_text \o <<Ws, PageMarker(idx + 1), Ws>> \o <<PageText(idx + 1), Ws>>
    ELSE IF outcome \in {"exec_err", "exit_fail"} THEN <<>>
    ELSE all_text

\* l.344-360: what one page adds to all_text
page_text(all_text, idx, outcome) ==
    IF outcome = "ok_text"
    THEN all_text \o <<Ws, PageMarker(idx + 1), Ws>> \o <<PageText(idx + 1), Ws>>
    ELSE all_text

\* Mutant: the page images are removed as soon as one page has been read.
TesseractReturnsRemovesPages(s, outcome) ==
    /\ task[s].pc = "wait_tesseract"
    /\ outcome \in TesseractOutcomes
    /\ LET t == task[s]
       IN /\ task' = [task EXCEPT
                 ![s].all_text = page_text(t.all_text, t.idx, outcome),
                 ![s].idx = t.idx + 1,
                 ![s].running = t.running - 1,
                 ![s].pc = IF t.idx + 1 < Len(t.pages) THEN "insert_ocr"
                           ELSE "cleanup"]
          /\ disk' = disk \ { t.pages[i] : i \in 1..Len(t.pages) }
    /\ UNCHANGED <<split, tracker, issued, parts_seen, pages_made, status_reply, last_insert>>

\* l.344-373: tesseract returns for page idx + 1; the loop goes on
TesseractReturns(s, outcome) ==
    /\ task[s].pc = "wait_tesseract"
    /\ outcome \in TesseractOutcomes
    /\ LET t == task[s]
       IN /\ task' = [task EXCEPT
                 ![s].all_text = page_text(t.all_text, t.idx, outcome),
                 ![s].ok_pages = IF outcome = "ok_text"
                                 THEN t.ok_pages \cup {t.idx + 1} ELSE t.ok_pages,
                 ![s].failed_pages =
                     IF outcome \in {"exec_err", "exit_fail", "ok_unreadable"}
                     THEN t.failed_pages \cup {t.idx + 1} ELSE t.failed_pages,
                 ![s].idx = t.idx + 1,
                 ![s].running = t.running - 1,
                 ![s].pc = IF t.idx + 1 < Len(t.pages) THEN "insert_ocr"
                           ELSE "cleanup"]
          /\ disk' = IF outcome = "ok_unreadable"
                     THEN disk \cup {TxtPath(s, t.file_i, t.idx + 1)}
                     ELSE disk
    /\ UNCHANGED <<split, tracker, issued, parts_seen, pages_made, status_reply, last_insert>>

\* l.375-397: remove the page images and build the result of the PDF
CleanupPages(s) ==
    /\ task[s].pc = "cleanup"
    /\ LET t == task[s]
       IN /\ disk' = disk \ { t.pages[i] : i \in 1..Len(t.pages) }
          /\ task' = [task EXCEPT ![s].pc = "push",
                 ![s].ocr_result = Some(OcrSuccess(CurFile(t).filename,
                                        trim(t.all_text), Len(t.pages)))]
    /\ UNCHANGED <<split, tracker, issued, parts_seen, pages_made, status_reply, last_insert>>

\* l.406: Command::new("tesseract") on a single image starts
InvokeTesseractImage(s) ==
    /\ task[s].pc = "call_tesseract_image"
    /\ task' = [task EXCEPT ![s] =
           [Started(task[s], "tesseract", 0)
               EXCEPT !.pc = "wait_tesseract_image"]]
    /\ UNCHANGED <<split, tracker, disk, issued, parts_seen, pages_made, status_reply, last_insert>>

\* Mutant: an image on which no text is found counts as a failure.
image_result_blank_fails(filename, outcome) ==
    CASE outcome = "ok_text" -> OcrSuccess(filename, trim(<<PageText(1), Ws>>), 1)
      [] outcome = "ok_blank" -> OcrFailure(filename, "Tesseract error")
      [] outcome = "ok_unreadable" -> OcrFailure(filename, "Failed to read OCR output")
      [] outcome = "exit_fail" -> OcrFailure(filename, "Tesseract error")
      [] outcome = "exec_err" -> OcrFailure(filename, "Failed to execute tesseract")

\* l.413-476: the result of a single image
image_result(filename, outcome) ==
    CASE outcome = "ok_text" -> OcrSuccess(filename, trim(<<PageText(1), Ws>>), 1)
      [] outcome = "ok_blank" -> OcrSuccess(filename, trim(<<Ws>>), 1)
      [] outcome = "ok_unreadable" -> OcrFailure(filename, "Failed to read OCR output")
      [] outcome = "exit_fail" -> OcrFailure(filename, "Tesseract error")
      [] outcome = "exec_err" -> OcrFailure(filename, "Failed to execute tesseract")

TesseractImageReturns(s, outcome) ==
    /\ task[s].pc = "wait_tesseract_image"
    /\ outcome \in TesseractOutcomes
    /\ LET t == task[s]
       IN /\ task' = [task EXCEPT ![s].pc = "push",
                 ![s].running = t.running - 1,
                 ![s].image_outcome = Some(outcome),
                 ![s].ocr_result = Some(image_result(CurFile(t).filename, outcome))]
          /\ disk' = IF outcome = "ok_unreadable"
                     THEN disk \cup {TxtPath(s, t.file_i, 1)}
                     ELSE disk
    /\ UNCHANGED <<split, tracker, issued, parts_seen, pages_made, status_reply, last_insert>>

\* ------------------------------------------------------ the spawned task
\* Mutant: only successful results are pushed.
PushResultDropsFailures(s) ==
    /\ task[s].pc = "push"
    /\ LET t == task[s]
       IN /\ task' = [task EXCEPT
                 ![s].results = IF t.ocr_result[1].success
                                THEN Append(t.results, t.ocr_result[1])
                                ELSE t.results,
                 ![s].ocr_result = None,
                 ![s].pages = <<>>, ![s].idx = 0, ![s].all_text = <<>>,
                 ![s].ok_pages = {}, ![s].failed_pages = {},
                 ![s].image_outcome = None,
                 ![s].file_i = t.file_i + 1,
                 ![s].pc = enter_loop(t.files_to_process, t.file_i + 1)]
          /\ disk' = disk \ {CurFile(t).temp_path}
    /\ UNCHANGED <<split, tracker, issued, parts_seen, pages_made, status_reply, last_insert>>

\* l.123-127: results.push(ocr_result); remove_file(&temp_path); next file
PushResult(s) ==
    /\ task[s].pc = "push"
    /\ LET t == task[s]
       IN /\ task' = [task EXCEPT
                 ![s].results = Append(t.results, t.ocr_result[1]),
                 ![s].ocr_result = None,
                 ![s].pages = <<>>, ![s].idx = 0, ![s].all_text = <<>>,
                 ![s].ok_pages = {}, ![s].failed_pages = {},
                 ![s].image_outcome = None,
                 ![s].file_i = t.file_i + 1,
                 ![s].pc = enter_loop(t.files_to_process, t.file_i + 1)]
          /\ disk' = disk \ {CurFile(t).temp_path}
    /\ UNCHANGED <<split, tracker, issued, parts_seen, pages_made, status_reply, last_insert>>

\* Mutant: the terminal snapshot is also inserted inside the loop, before
\* each push after the first.
InsertCompleteInLoop(s) ==
    /\ \/ /\ task[s].pc = "insert_complete"
          /\ task' = [task EXCEPT ![s].pc = "done"]
       \/ /\ task[s].pc = "push"
          /\ task[s].results # <<>>
          /\ tracker[s] # Some(StComplete(task[s].results))
          /\ UNCHANGED task
    /\ Publish(s, StComplete(task[s].results))
    /\ UNCHANGED <<split, disk, issued, parts_seen, pages_made, status_reply>>

\* l.131-141: the terminal snapshot; the task ends
InsertComplete(s) ==
    /\ task[s].pc = "insert_complete"
    /\ Publish(s, StComplete(task[s].results))
    /\ task' = [task EXCEPT ![s].pc = "done"]
    /\ UNCHANGED <<split, disk, issued, parts_seen, pages_made, status_reply>>

TaskStep(s) ==
    \/ InsertConverting(s)
    \/ InvokePdftoppm(s)
    \/ \E how \in {"exec_err", "exit_fail"} : PdftoppmFails(s, how)
    \/ \E n \in 0..MaxPages, w \in PadWidths : PdftoppmSucceeds(s, n, w)
    \/ InsertConverted(s)
    \/ InsertOcr(s)
    \/ InvokeTesseract(s)
    \/ \E outcome \in TesseractOutcomes : TesseractReturns(s, outcome)
    \/ CleanupPages(s)
    \/ InvokeTesseractImage(s)
    \/ \E outcome \in TesseractOutcomes : TesseractImageReturns(s, outcome)
    \/ PushResult(s)
    \/ InsertComplete(s)

Next ==
    \/ \E parts \in Batches : Upload(parts)
    \/ \E parts \in Batches, done \in 0..MaxParts : UploadError(parts, done)
    \/ \E s \in Sessions : TaskStep(s)
    \/ \E sid \in Sessions : GetStatus(sid)

Spec == Init /\ [][Next]_vars

\* The runtime keeps polling a spawned task, and Command::output returns when
\* the external program ends: every task that can take a step takes one.
LiveSpec == Spec /\ \A s \in Sessions : WF_vars(TaskStep(s))

\* ---------------------------------------------------------------- /split
\* l.582-583: (500.0 / estimated_kb_per_page).floor() with
\* estimated_kb_per_page = (file_size_kb as f64 / total_pages as f64).max(1.0).
\* Both f64 divisions round.  Where 500 * total_pages / file_size_kb is a
\* whole number q and a division is inexact, the computed quotient is q or
\* just below it, so the floor is q or q - 1; where both divisions are exact
\* it is q; elsewhere the rounding cannot reach the next whole number.
\* Mutant: the quotient is rounded to the nearest whole number.
round_quotient(file_size_kb, total_pages) ==
    IF file_size_kb <= total_pages THEN {TargetChunkKB}
    ELSE {(2 * TargetChunkKB * total_pages + file_size_kb) \div (2 * file_size_kb)}

floor_quotient(file_size_kb, total_pages) ==
    IF file_size_kb <= total_pages THEN {TargetChunkKB}
    ELSE LET q == (TargetChunkKB * total_pages) \div file_size_kb
         IN IF (TargetChunkKB * total_pages) % file_size_kb # 0 THEN {q}
            ELSE IF /\ file_size_kb % total_pages = 0
                    /\ TargetChunkKB % (file_size_kb \div total_pages) = 0
                 THEN {q}
                 ELSE {q - 1, q}

Max(a, b) == IF a >= b THEN a ELSE b
Min(a, b) == IF a <= b THEN a ELSE b

\* Mutant: the lower clamp is missing.
clamp_pages_no_floor(f, total_pages) == Min(f, total_pages)

\* l.583-585: .max(1).min(total_pages)
clamp_pages(f, total_pages) == Min(Max(f, 1), total_pages)

pages_per_chunk_of(file_size_kb, total_pages) ==
    { clamp_pages(f, total_pages) : f \in floor_quotient(file_size_kb, total_pages) }

SplitReply(code, ok, total_pages, chunks, err) ==
    Some([ code |-> code, success |-> ok, total_pages |-> total_pages,
           chunks |-> chunks, error |-> err ])

\* l.485-578: the request ends early
\*   no_file     400  the payload has no part
\*   not_pdf     400  the filename does not end in .pdf
\*   pdftk_err   500  pdftk cannot be executed
\*   pdftk_fail  500  pdftk dump_data exits non-zero
\*   no_pages    500  NumberOfPages is absent, unparsable or 0
SplitRefused(why) ==
    /\ split.pc = "idle"
    /\ why \in {"no_file", "not_pdf", "pdftk_err", "pdftk_fail", "no_pages"}
    /\ split' = [split EXCEPT !.pc = "done",
           !.response = SplitReply(IF why \in {"no_file", "not_pdf"} THEN 400 ELSE 500,
                                   FALSE, 0, <<>>, Some(why))]
    /\ UNCHANGED ocr_vars

\* l.535-595: pdftk dump_data reports total_pages >= 1, the saved PDF has
\* `bytes` bytes; pages_per_chunk is computed and the loop is entered
SplitAnalyzed(total_pages, bytes) ==
    /\ split.pc = "idle"
    /\ total_pages >= 1
    /\ LET file_size_kb == bytes \div BytesPerKB
       IN \E ppc \in pages_per_chunk_of(file_size_kb, total_pages) :
            split' = [split EXCEPT !.pc = "loop", !.total_pages = total_pages,
                          !.file_size_kb = file_size_kb, !.pages_per_chunk = ppc,
                          !.current_page = 1, !.chunk_num = 1, !.chunks = <<>>]
    /\ UNCHANGED ocr_vars

\* Mutant: the range is one page too long.
end_page_one_more(current_page, pages_per_chunk, total_pages) ==
    Min(current_page + pages_per_chunk, total_pages)

\* l.598: end_page = (current_page + pages_per_chunk - 1).min(total_pages)
end_page_of(current_page, pages_per_chunk, total_pages) ==
    Min(current_page + pages_per_chunk - 1, total_pages)

\* l.597-616: the loop goes on; pdftk cat current_page-end_page starts
SplitInvokeCat ==
    /\ split.pc = "loop"
    /\ split.current_page <= split.total_pages
    /\ LET end_page == end_page_of(split.current_page, split.pages_per_chunk,
                                   split.total_pages)
       IN split' = [split EXCEPT !.pc = "wait_cat", !.end_page = end_page,
                        !.invoked = Append(@, <<split.current_page, end_page>>)]
    /\ UNCHANGED ocr_vars

\*   exec_err   pdftk cannot be executed
\*   exit_fail  non-zero exit status
\*   ok_nofile  success, but the chunk file has no metadata
\*   ok         success, the chunk file exists
CatOutcomes == {"exec_err", "exit_fail", "ok_nofile", "ok"}

\* l.618-633: the chunk is recorded only when it materialized
record_chunk(chunks, chunk_num, current_page, end_page, outcome) ==
    IF outcome = "ok"
    THEN Append(chunks, [ chunk_num |-> chunk_num,
                          page_range |-> <<current_page, end_page>> ])
    ELSE chunks

\* Mutant: a chunk that fails ends the loop.
SplitCatReturnsAborts(outcome) ==
    /\ split.pc = "wait_cat"
    /\ outcome \in CatOutcomes
    /\ split' = [split EXCEPT !.pc = "loop",
           !.chunks = record_chunk(@, split.chunk_num, split.current_page,
                                   split.end_page, outcome),
           !.failed = IF outcome = "ok" THEN @
                      ELSE Append(@, <<split.current_page, split.end_page>>),
           !.current_page = IF outcome = "ok" THEN split.end_page + 1
                            ELSE split.total_pages + 1,
           !.chunk_num = @ + 1]
    /\ UNCHANGED ocr_vars

\* l.618-636: pdftk cat returns; current_page and chunk_num advance
SplitCatReturns(outcome) ==
    /\ split.pc = "wait_cat"
    /\ outcome \in CatOutcomes
    /\ split' = [split EXCEPT !.pc = "loop",
           !.chunks = record_chunk(@, split.chunk_num, split.current_page,
                                   split.end_page, outcome),
           !.failed = IF outcome = "ok" THEN @
                      ELSE Append(@, <<split.current_page, split.end_page>>),
           !.current_page = split.end_page + 1,
           !.chunk_num = @ + 1]
    /\ UNCHANGED ocr_vars

\* l.597, l.641-647: the loop is over; 200 with the chunks
SplitResponds ==
    /\ split.pc = "loop"
    /\ split.current_page > split.total_pages
    /\ split' = [split EXCEPT !.pc = "done",
           !.response = SplitReply(200, TRUE, split.total_pages, split.chunks, None)]
    /\ UNCHANGED ocr_vars

SplitNext ==
    \/ \E why \in {"no_file", "not_pdf", "pdftk_err", "pdftk_fail", "no_pages"} :
          SplitRefused(why)
    \/ \E total_pages \in 1..MaxTotalPages, k \in 0..MaxSizeSteps :
          SplitAnalyzed(total_pages, k * SizeStep)
    \/ SplitInvokeCat
    \/ \E outcome \in CatOutcomes : SplitCatReturns(outcome)
    \/ SplitResponds

SplitSpec == Init /\ [][SplitNext]_vars

\* /split of one 1203-page PDF of 12 MB (12 * 1024 * 1024 bytes), of whose
\* chunks at most MaxLostChunks fail to materialize.
LargeSplitNext ==
    \/ SplitAnalyzed(1203, 12 * BytesPerKB * BytesPerKB)
    \/ SplitInvokeCat
    \/ \E outcome \in CatOutcomes :
          /\ outcome # "ok" => Len(split.failed) < MaxLostChunks
          /\ SplitCatReturns(outcome)
    \/ SplitResponds

LargeSplitSpec == Init /\ [][LargeSplitNext]_vars

\* ================================================================ claims
Completed(s) == tracker[s] # None /\ tracker[s][1].complete

Returned(s) == s <= issued     \* upload has answered with session id s

\* C1: once a snapshot with complete = true is in the tracker for a session,
\* the task of that session has ended, no step changes the entry of that
\* session, and every status reply for it is that terminal snapshot.
C1_TerminalIsFinal ==
    [][\A s \in Sessions :
         Completed(s) =>
            /\ task[s].pc = "done"
            /\ tracker'[s] = tracker[s]
            /\ last_insert'[s] = last_insert[s]
            /\ (status_reply' # status_reply /\ status_reply'.session_id = s)
                  => status_reply'.body = tracker[s]]_vars

C1_Witness ==
    \E s \in Sessions :
        /\ Completed(s)
        /\ tracker[s][1].results # <<>>
        /\ status_reply.session_id = s
        /\ status_reply.body = tracker[s]

\* C2: the terminal snapshot of a session has one result per part of the
\* payload with a valid extension, failed or not, and the i-th result has
\* the filename of the i-th such part.
ValidParts(s) == SelectSeq(task[s].payload, is_valid)

C2_OneResultPerArtifact ==
    \A s \in Sessions :
        Completed(s) =>
            LET res == tracker[s][1].results
            IN /\ Len(res) = Len(ValidParts(s))
               /\ \A i \in 1..Len(res) : res[i].filename = ValidParts(s)[i]

C2_Witness ==
    \E s \in Sessions :
        /\ Completed(s)
        /\ Len(tracker[s][1].results) = 2
        /\ ~tracker[s][1].results[1].success
        /\ tracker[s][1].results[2].success
        /\ tracker[s][1].results[1].filename # tracker[s][1].results[2].filename

\* C3: under LiveSpec, every session whose id upload has returned eventually
\* has a snapshot with complete = true in the tracker.
C3_EventuallyComplete ==
    \A s \in Sessions : Returned(s) ~> Completed(s)

C3_Witness ==
    \E s \in Sessions :
        /\ Completed(s)
        /\ \E i, j \in 1..Len(tracker[s][1].results) :
              /\ tracker[s][1].results[i].success
              /\ ~tracker[s][1].results[j].success

\* C4 (as claimed): before completion the `current` of the successive
\* snapshots of a session never decreases.
C4_CurrentNeverDecreases ==
    [][\A s \in Sessions :
         (tracker[s] # None /\ tracker'[s] # None /\ ~tracker'[s][1].complete)
            => tracker'[s][1].current >= tracker[s][1].current]_vars

\* C5 (as claimed): the stages published for a session only advance along
\* Converting -> Converted -> Recognizing -> Complete.
StageRank(stage) ==
    CASE stage = "Converting PDF" -> 1
      [] stage = "PDF Converted" -> 2
      [] stage = "OCR Processing" -> 3
      [] stage = "Complete" -> 4

C5_StagesOnlyAdvance ==
    [][\A s \in Sessions :
         (tracker[s] # None /\ tracker'[s] # None)
            => StageRank(tracker'[s][1].stage) >= StageRank(tracker[s][1].stage)]_vars

\* C6 (as claimed): a status request for a session id that upload has
\* already returned is never answered with null.
C6_NoNullAfterUpload ==
    [][(status_reply' # status_reply /\ Returned(status_reply'.session_id))
          => status_reply'.body # None]_vars

\* C7: every status reply is None when nothing has been inserted for its
\* session id, and otherwise exactly the snapshot of the latest insert for
\* that id at the time of the read.
C7_ReplyIsLatestInsert ==
    status_reply.body = status_reply.inserted

C7_Witness ==
    /\ status_reply.body # None
    /\ status_reply.body[1].stage = "OCR Processing"
    /\ status_reply.body[1].current = 2

\* C8: when the page loop of a PDF converted into n >= 1 pages is over, the
\* result has success = true and pages_processed = total_pages = n, every page
\* has been tried, and the markers in the text are those of the pages
\* recognised with non-blank text, in increasing order: no failed page has one.
Markers(text) ==
    LET m == SelectSeq(text, LAMBDA e : e.kind = "marker")
    IN [i \in 1..Len(m) |-> m[i].page]

RECURSIVE Ascending(_)
Ascending(S) ==
    IF S = {} THEN <<>>
    ELSE LET x == CHOOSE y \in S : \A z \in S : y <= z
         IN <<x>> \o Ascending(S \ {x})

C8_PdfResultDespiteFailures ==
    \A s \in Sessions :
        (task[s].pc = "push" /\ task[s].pages # <<>>) =>
            LET r == task[s].ocr_result[1]
                n == Len(task[s].pages)
            IN /\ r.success /\ r.error = None
               /\ r.pages_processed = Some(n) /\ r.total_pages = Some(n)
               /\ task[s].idx = n
               /\ Markers(r.text) = Ascending(task[s].ok_pages)
               /\ \A i \in 1..Len(r.text) :
                     r.text[i].kind = "marker" => r.text[i].page \notin task[s].failed_pages

C8_Witness ==
    \E s \in Sessions :
        /\ task[s].pc = "push"
        /\ Len(task[s].pages) = 2
        /\ task[s].failed_pages = {1}
        /\ task[s].ok_pages = {2}

\* C9: in /split the recorded ranges are 1-indexed ranges
\* [1 + k*p, min((k+1)*p, total_pages)] for p = pages_per_chunk, strictly
\* increasing and disjoint in list order, and at the end their lengths add up
\* to total_pages minus the lengths of the ranges that did not materialize.
RECURSIVE SumLen(_)
SumLen(ranges) ==
    IF ranges = <<>> THEN 0
    ELSE (Head(ranges)[2] - Head(ranges)[1] + 1) + SumLen(Tail(ranges))

ChunkRanges(chunks) == [j \in 1..Len(chunks) |-> chunks[j].page_range]

C9_ChunksPartition ==
    split.total_pages >= 1 =>
        LET r == ChunkRanges(split.chunks)
            p == split.pages_per_chunk
            n == split.total_pages
        IN /\ \A j \in 1..Len(r) :
                 /\ 1 <= r[j][1] /\ r[j][1] <= r[j][2] /\ r[j][2] <= n
                 /\ \E k \in 0..n : r[j] = <<1 + k * p, Min((k + 1) * p, n)>>
           /\ \A j \in 1..(Len(r) - 1) : r[j][2] < r[j + 1][1]
           /\ split.pc = "done" =>
                 /\ split.response[1].success
                 /\ split.response[1].chunks = split.chunks
                 /\ SumLen(r) = n - SumLen(split.failed)

C9_Witness ==
    /\ split.pc = "done"
    /\ split.response[1].success
    /\ Len(split.chunks) >= 2
    /\ Len(split.failed) = 1
    /\ split.total_pages % split.pages_per_chunk # 0
    /\ split.chunks[Len(split.chunks)].page_range[2] = split.total_pages

\* C10: for every file size and every total_pages >= 1, pages_per_chunk is in
\* 1..total_pages; a 1-page file of any size gets pages_per_chunk = 1 and the
\* single range 1-1.
C10_PagesPerChunkInRange ==
    split.total_pages >= 1 =>
        /\ split.pages_per_chunk \in 1..split.total_pages
        /\ split.total_pages = 1 =>
              /\ split.pages_per_chunk = 1
              /\ split.pc = "done" => split.invoked = <<<<1, 1>>>>

C10_Witness ==
    /\ split.pc = "done"
    /\ split.total_pages = 1
    /\ split.file_size_kb > TargetChunkKB
    /\ ChunkRanges(split.chunks) = <<<<1, 1>>>>

\* C11 (as claimed): the 1203-page, 12 MB split has pages_per_chunk = 49,
\* 25 ranges, and its last range is 1177-1203.
C11_AsClaimed ==
    split.pc = "done" =>
        /\ split.pages_per_chunk = 49
        /\ Len(split.invoked) = 25
        /\ split.invoked[Len(split.invoked)] = <<1177, 1203>>

\* C11 (amended): the 1203-page split of 12 * 1024 * 1024 bytes has
\* file_size_kb = 12288 and pages_per_chunk = 48, tries 26 ranges, and its
\* last range is 1201-1203 (3 pages).
C11_LargeSplit ==
    split.pc # "idle" =>
        /\ split.file_size_kb = 12288
        /\ split.pages_per_chunk = 48
        /\ split.pc = "done" =>
              /\ Len(split.invoked) = 26
              /\ split.invoked[Len(split.invoked)] = <<1201, 1203>>
              /\ Len(split.chunks) + Len(split.failed) = 26

C11_Witness ==
    /\ split.pc = "done"
    /\ split.total_pages = 1203
    /\ Len(split.chunks) = 25
    /\ Len(split.failed) = 1

\* C12: a part whose filename does not end, whatever the case, in .pdf,
\* .png, .jpg or .jpeg is never queued, never given to a tool and never gets
\* a result; under LiveSpec a returned session none of whose parts has such
\* an ending gets the terminal snapshot with complete = true and no results.
SupportedEnding(filename) == filename.ext \in {"pdf", "PDF", "png", "jpg", "jpeg"}

NoSupportedPart(s) ==
    \A i \in 1..Len(task[s].payload) : ~SupportedEnding(task[s].payload[i])

C12_UnsupportedExcluded ==
    /\ [](\A s \in Sessions :
            /\ \A i \in 1..Len(task[s].files_to_process) :
                  SupportedEnding(task[s].files_to_process[i].filename)
            /\ \A c \in task[s].tool_calls : SupportedEnding(c.name)
            /\ \A i \in 1..Len(task[s].results) :
                  SupportedEnding(task[s].results[i].filename)
            /\ \A f \in disk : f.sid = s => f.ext # "txt" \/ f.kind = "txt"
            /\ tracker[s] # None =>
                  \A i \in 1..Len(tracker[s][1].results) :
                      SupportedEnding(tracker[s][1].results[i].filename))
    /\ \A s \in Sessions :
          (Returned(s) /\ NoSupportedPart(s)) ~> (tracker[s] = Some(StComplete(<<>>)))

C12_Witness ==
    \E s \in Sessions :
        /\ task[s].payload # <<>>
        /\ NoSupportedPart(s)
        /\ task[s].tool_calls = {}
        /\ tracker[s] = Some(StComplete(<<>>))

\* C13 (as claimed): an upload none of whose parts has a supported
\* extension, or with no part at all, spawns no task and no snapshot is ever
\* inserted in the tracker under its session id.
C13_NoPipelineOnInvalidInput ==
    \A s \in Sessions :
        (Returned(s) /\ ValidParts(s) = <<>>) =>
            /\ task[s].pc = "unspawned"
            /\ last_insert[s] = None
            /\ tracker[s] = None

\* C14: the result of an image (a file that is not a PDF) on which tesseract
\* succeeded and whose output was read has success = true and
\* pages_processed = total_pages = 1, blank text included; when tesseract
\* cannot be run, exits non-zero or its output cannot be read, the result has
\* success = false, an error and no page counts.
IsImageSuccess(r) ==
    /\ r.success
    /\ r.error = None
    /\ r.pages_processed = Some(1)
    /\ r.total_pages = Some(1)

IsImageFailure(r) ==
    /\ ~r.success
    /\ r.error # None
    /\ r.pages_processed = None
    /\ r.total_pages = None
    /\ r.text = <<>>

C14_ImageResult ==
    \A s \in Sessions :
        /\ task[s].image_outcome # None =>
              /\ task[s].pc = "push"
              /\ ~is_pdf(CurFile(task[s]))
              /\ task[s].ocr_result # None
              /\ task[s].ocr_result[1].filename = CurFile(task[s]).filename
              /\ IF task[s].image_outcome[1] \in {"ok_text", "ok_blank"}
                 THEN IsImageSuccess(task[s].ocr_result[1])
                 ELSE IsImageFailure(task[s].ocr_result[1])
              /\ task[s].image_outcome[1] = "ok_blank" =>
                    task[s].ocr_result[1].text = <<>>
        /\ \A i \in 1..Len(task[s].results) :
              ~is_pdf(task[s].files_to_process[i]) =>
                  \/ IsImageSuccess(task[s].results[i])
                  \/ IsImageFailure(task[s].results[i])

C14_Witness ==
    \E s \in Sessions :
        /\ Completed(s)
        /\ Len(tracker[s][1].results) = 2
        /\ ~is_pdf(task[s].files_to_process[1])
        /\ ~is_pdf(task[s].files_to_process[2])
        /\ IsImageSuccess(tracker[s][1].results[1])
        /\ tracker[s][1].results[1].text = <<>>
        /\ IsImageFailure(tracker[s][1].results[2])

\* C15: while tesseract is about to be invoked or is running on page i of
\* the n pages of a PDF, the tracker holds the snapshot ("OCR Processing",
\* current = i, total = n, complete = false), inserted after tesseract
\* returned for page i - 1: when that snapshot is inserted no tool is running
\* and the pages tesseract was invoked on are exactly 1..i-1.
PagesInvoked(s) ==
    { c.page : c \in { d \in task[s].tool_calls :
                          d.file = task[s].file_i /\ d.tool = "tesseract" } }

C15_SnapshotBeforeRecognition ==
    \A s \in Sessions :
        LET t == task[s]
            n == Len(t.pages)
        IN /\ t.pc \in {"call_tesseract", "wait_tesseract"} =>
                /\ t.idx + 1 \in 1..n
                /\ tracker[s] = Some(StOcr(t.idx + 1, n))
                /\ tracker[s][1].stage = "OCR Processing"
                /\ tracker[s][1].current = t.idx + 1
                /\ tracker[s][1].total = n
                /\ ~tracker[s][1].complete
           /\ t.pc = "call_tesseract" =>
                /\ t.running = 0
                /\ PagesInvoked(s) = 1..t.idx
           /\ t.pc = "wait_tesseract" =>
                /\ t.running = 1
                /\ PagesInvoked(s) = 1..(t.idx + 1)
           /\ t.pc = "insert_ocr" =>
                /\ t.running = 0
                /\ PagesInvoked(s) = 1..t.idx
                /\ tracker[s] = IF t.idx = 0 THEN Some(StConverted(n))
                                ELSE Some(StOcr(t.idx, n))

C15_Witness ==
    \E s \in Sessions :
        /\ task[s].pc = "wait_tesseract"
        /\ task[s].idx = 1
        /\ tracker[s] = Some(StOcr(2, 2))

\* C16 (as claimed): while an image (a file that is not a PDF) is being
\* recognised and until its result is pushed, the snapshot of the session is
\* an "OCR Processing" one published for that image, not a "Converting PDF"
\* or "PDF Converted" one, so that the session passes through Recognizing
\* before Complete.
C16_ImagePublishesRecognizing ==
    \A s \in Sessions :
        (/\ task[s].pc \in {"wait_tesseract_image", "push"}
         /\ ~is_pdf(CurFile(task[s]))) =>
            /\ tracker[s] # None
            /\ last_insert[s] # None
            /\ tracker[s][1].stage = "OCR Processing"
            /\ ~tracker[s][1].complete

\* C17: a PDF whose conversion fails (pdftoppm cannot be executed, exits
\* non-zero or leaves no page that is found) gets a result with
\* success = false and a non-empty error, tesseract is never invoked for it,
\* and the files after it are still processed: the terminal snapshot has one
\* result for every queued file, each of which was given to a tool.
ResultOf(s, i) ==
    IF i <= Len(task[s].results) THEN Some(task[s].results[i])
    ELSE IF i = task[s].file_i THEN task[s].ocr_result
    ELSE None

C17_ConversionFailureIsolated ==
    \A s \in Sessions :
        /\ \A i \in task[s].conv_failed :
              /\ is_pdf(task[s].files_to_process[i])
              /\ ResultOf(s, i) # None
              /\ ~ResultOf(s, i)[1].success
              /\ ResultOf(s, i)[1].error \notin {None, Some("")}
              /\ ResultOf(s, i)[1].filename = task[s].files_to_process[i].filename
              /\ \A c \in task[s].tool_calls : c.file = i => c.tool = "pdftoppm"
        /\ Completed(s) =>
              /\ Len(tracker[s][1].results) = Len(task[s].files_to_process)
              /\ \A i \in 1..Len(task[s].files_to_process) :
                    \E c \in task[s].tool_calls : c.file = i

C17_Witness ==
    \E s \in Sessions :
        /\ Completed(s)
        /\ task[s].conv_failed = {1}
        /\ Len(tracker[s][1].results) = 2
        /\ ~tracker[s][1].results[1].success
        /\ tracker[s][1].results[2].success
        /\ is_pdf(task[s].files_to_process[2])

\* C18: a session has at most one tool running at any time, and a tool runs
\* exactly while its task waits for it; the files are processed in queue
\* order: every tool invocation and every snapshot before the terminal one
\* is made for file k + 1 when exactly k results have been recorded.
Waiting(s) ==
    task[s].pc \in {"wait_pdftoppm", "wait_tesseract", "wait_tesseract_image"}

C18_SequentialWithinSession ==
    \A s \in Sessions :
        /\ task[s].running \in {0, 1}
        /\ task[s].running = 1 <=> Waiting(s)
        /\ \A c \in task[s].tool_calls :
              /\ c.done = c.file - 1
              /\ c.file <= Len(task[s].results) + 1
              /\ c.name = task[s].files_to_process[c.file].filename
        /\ task[s].pc \notin {"unspawned", "insert_complete", "done"} =>
              /\ task[s].file_i = Len(task[s].results) + 1
              /\ task[s].file_i <= Len(task[s].files_to_process)
        /\ \A c, d \in task[s].tool_calls :
              (c.file < d.file) => c.file <= Len(task[s].results)

C18_Witness ==
    /\ \A s \in Sessions : Waiting(s) /\ task[s].running = 1
    /\ \E s \in Sessions : task[s].pc = "wait_tesseract" /\ task[s].idx = 1

\* C19 (as claimed): once the terminal snapshot of a session is in the
\* tracker, no temporary file of that session (uploaded original, page
\* image, tesseract output) is left on disk, whatever failed on the way.
C19_NoArtifactLeftAfterComplete ==
    \A s \in Sessions :
        Completed(s) => \A f \in disk : f.sid # s

\* C20: a step that changes the tracker entry of a session is a step of the
\* task of that session, at one of its inserts, and leaves the entries of
\* all other sessions as they were; the results of a terminal snapshot are
\* those gathered by the task of that session, for files of its own payload.
C20_WritesOnlyOwnEntry ==
    /\ [][\A s \in Sessions :
            tracker'[s] # tracker[s] =>
               /\ task[s].pc \in {"insert_converting", "insert_converted",
                                  "insert_ocr", "insert_complete"}
               /\ task'[s] # task[s]
               /\ \A o \in Sessions \ {s} :
                     /\ tracker'[o] = tracker[o]
                     /\ last_insert'[o] = last_insert[o]
                     /\ task'[o] = task[o]]_vars
    /\ [](\A s \in Sessions :
            Completed(s) =>
               /\ tracker[s][1].results = task[s].results
               /\ \A i \in 1..Len(tracker[s][1].results) :
                     /\ \E j \in 1..Len(task[s].payload) :
                           tracker[s][1].results[i].filename = task[s].payload[j]
                     /\ \A c \in task[s].tool_calls :
                           c.file = i => c.name = tracker[s][1].results[i].filename)

C20_Witness ==
    \E s, o \in Sessions :
        /\ s # o
        /\ Completed(s)
        /\ Completed(o)
        /\ Len(tracker[s][1].results) = 1
        /\ Len(tracker[o][1].results) = 1
        /\ tracker[s][1].results[1].filename # tracker[o][1].results[1].filename
        /\ tracker[s][1].results[1].total_pages = Some(2)

\* C21: every snapshot in the tracker with complete = false has no results,
\* and so has every status reply that is not complete: the results the task
\* has already gathered for the first files of a batch are in no snapshot
\* before the terminal one.
C21_ResultsOnlyWhenTerminal ==
    /\ \A s \in Sessions :
          (tracker[s] # None /\ ~tracker[s][1].complete) =>
              /\ tracker[s][1].results = <<>>
              /\ last_insert[s][1].results = <<>>
    /\ (status_reply.body # None /\ ~status_reply.body[1].complete) =>
          status_reply.body[1].results = <<>>
    /\ \A s \in Sessions :
          (tracker[s] # None /\ tracker[s][1].results # <<>>) =>
              /\ tracker[s][1].complete
              /\ task[s].pc = "done"

C21_Witness ==
    \E s \in Sessions :
        /\ task[s].results # <<>>
        /\ tracker[s] # None
        /\ ~tracker[s][1].complete
        /\ tracker[s][1].stage = "Converting PDF"
        /\ status_reply.session_id = s
        /\ status_reply.body = tracker[s]

\* C22: in a /split that gets to its loop, a range whose chunk fails (pdftk
\* cannot be run, exits non-zero, or leaves no file) is not among the chunks
\* of the reply; pdftk is still invoked once for each of the
\* ceil(total_pages / pages_per_chunk) ranges, the last of which ends at
\* total_pages, and the reply has success = true.
InSeq(x, sq) == \E i \in 1..Len(sq) : sq[i] = x

CeilDiv(a, b) == (a + b - 1) \div b

C22_FailedChunkOmitted ==
    /\ \A i \in 1..Len(split.failed) :
          /\ ~InSeq(split.failed[i], ChunkRanges(split.chunks))
          /\ InSeq(split.failed[i], split.invoked)
    /\ \A i, j \in 1..Len(split.invoked) :
          i < j => split.invoked[i][2] < split.invoked[j][1]
    /\ Len(split.invoked) <= CeilDiv(split.total_pages, Max(split.pages_per_chunk, 1))
    /\ (split.pc = "done" /\ split.total_pages >= 1) =>
          /\ Len(split.invoked) = CeilDiv(split.total_pages, split.pages_per_chunk)
          /\ split.invoked[Len(split.invoked)][2] = split.total_pages
          /\ Len(split.chunks) = Len(split.invoked) - Len(split.failed)
          /\ split.response # None
          /\ split.response[1].success
          /\ split.response[1].code = 200
          /\ split.response[1].chunks = split.chunks
          /\ \A i \in 1..Len(split.invoked) :
                InSeq(split.invoked[i], ChunkRanges(split.chunks))
                    <=> ~InSeq(split.invoked[i], split.failed)

C22_Witness ==
    /\ split.pc = "done"
    /\ Len(split.invoked) >= 3
    /\ split.failed = <<split.invoked[2]>>
    /\ Len(split.response[1].chunks) = Len(split.invoked) - 1
    /\ split.response[1].success

\* C23: no tool is invoked on a file the task has removed: the uploaded
\* original is on disk from the start of process_with_tesseract for it until
\* its result is pushed, and every page image found for a PDF is on disk
\* until the page loop has gone through all of them.
InProcess(s) ==
    task[s].pc \notin {"unspawned", "insert_complete", "done"}

InPageLoop(s) ==
    task[s].pc \in {"insert_converted", "insert_ocr", "call_tesseract",
                    "wait_tesseract", "cleanup"}

C23_NoToolOnRemovedFile ==
    \A s \in Sessions :
        /\ InProcess(s) => CurFile(task[s]).temp_path \in disk
        /\ InPageLoop(s) =>
              /\ task[s].pages # <<>>
              /\ \A p \in 1..Len(task[s].pages) : task[s].pages[p] \in disk
        /\ task[s].pc \in {"call_tesseract", "wait_tesseract"} =>
              /\ task[s].idx + 1 \in 1..Len(task[s].pages)
              /\ task[s].pages[task[s].idx + 1].num = task[s].idx + 1
              /\ task[s].pages[task[s].idx + 1].sid = s
              /\ task[s].pages[task[s].idx + 1].file = task[s].file_i
        /\ \A i \in 1..Len(task[s].files_to_process) :
              task[s].files_to_process[i].temp_path \notin disk
                  => i <= Len(task[s].results)

C23_Witness ==
    \E s \in Sessions :
        /\ Completed(s)
        /\ \E c \in task[s].tool_calls : c.tool = "tesseract" /\ c.page = 2
        /\ \E c \in task[s].tool_calls : c.tool = "pdftoppm"
        /\ \A f \in disk : f.sid # s

====
